---- MODULE Spec2Model ----
(***************************************************************************)
(* memejoin-rs: the voice-session orchestrator of src/main.rs.             *)
(*                                                                         *)
(* Gateway callbacks (Handler::ready, Handler::voice_state_update) and the *)
(* track-completion callback (TrackEventHandler::act) send HandlerMessage  *)
(* values into one bounded mpsc channel; one task (spawn_bot) receives     *)
(* them and drives songbird: join, enqueue_source, leave.                  *)
(*                                                                         *)
(* songbird keeps one Call per guild (Songbird::get_or_insert), each with  *)
(* one connection target, one built-in track queue and a list of global    *)
(* event handlers.                                                         *)
(***************************************************************************)
EXTENDS Integers, Sequences, FiniteSets, TLC

(***************************************************************************)
(* Bounds of the model.                                                    *)
(***************************************************************************)
MaxVoiceEvents == 2
MaxReadyEvents == 2
Burst == 9
MaxApiCalls == 2

(***************************************************************************)
(* Program constants.                                                      *)
(***************************************************************************)
InboxCapacity == 10
BotName == "MemeJoin"

(***************************************************************************)
(* The platform: guilds, voice channels (the gateway cache maps a channel  *)
(* id to its guild and its name) and members (identified by user name).    *)
(***************************************************************************)
NoChannel == 0
NoGuild == 0
NoMember == ""
NoIntro == ""

Guilds == {1, 2, 3}
Channels == {11, 12, 21, 22, 31}
Members == {"alice", "bob", "eve", BotName}

ChannelGuild(c) == c \div 10

\* the members of each guild; the gateway reports a voice state of a member
\* only in a channel of one of the member's guilds
GuildMembers(g) ==
    CASE g = 1 -> {"alice", "bob", "eve", BotName}
      [] g = 2 -> {"alice", BotName}
      [] g = 3 -> {"eve", BotName}

\* the names of the channels in the gateway cache
CacheNames ==
    [c \in Channels |->
        CASE c = 11 -> "general"
          [] c = 12 -> "music"
          [] c = 21 -> "general"
          [] c = 22 -> "afk"
          [] c = 31 -> "general"]

\* a guild whose two voice channels were given the same name
SameNames == [CacheNames EXCEPT ![22] = "general"]

(***************************************************************************)
(* settings.rs: Settings.guilds : guild id -> GuildSettings,               *)
(* GuildSettings.channels : channel name -> ChannelSettings,               *)
(* ChannelSettings.users : user name -> UserSettings (intros, in stored    *)
(* order), GuildSettings.intros : index -> Intro (File | Online).          *)
(* An IntroIndex is modelled by its index string.                          *)
(***************************************************************************)
InitSettings ==
    [guilds |->
        (1 :> [channels |->
                  ("general" :> [users |-> ("alice" :> <<"f1", "y1">>)
                                        @@ ("bob" :> <<"y1">>)
                                        @@ ("eve" :> <<>>)])
               @@ ("music" :> [users |-> ("alice" :> <<"y1">>)
                                      @@ ("bob" :> <<"gone">>)]),
               intros |-> ("f1" :> "File") @@ ("y1" :> "Online")])
     @@ (2 :> [channels |->
                  ("general" :> [users |-> ("alice" :> <<"f1">>)]),
               intros |-> ("f1" :> "File")])]

(***************************************************************************)
(* HandlerMessage (main.rs:33-37).  seq is the position of the message in  *)
(* the order of appends to the channel.                                    *)
(***************************************************************************)
ReadyMsg ==
    [type |-> "Ready", member |-> NoMember, channel |-> NoChannel, guild |-> NoGuild]
PlaySoundMsg(m, c) ==
    [type |-> "PlaySound", member |-> m, channel |-> c, guild |-> ChannelGuild(c)]
TrackEndedMsg(g) ==
    [type |-> "TrackEnded", member |-> NoMember, channel |-> NoChannel, guild |-> g]

Stamp(msg, n) ==
    [type |-> msg.type, member |-> msg.member, channel |-> msg.channel,
     guild |-> msg.guild, seq |-> n]

(***************************************************************************)
(* songbird::Call, one per guild in the Songbird manager.                  *)
(*   present   : the manager holds a Call for the guild                    *)
(*   channel   : the channel of the established connection (or NoChannel)  *)
(*   joining   : the target of a join that has not completed (or NoChannel)*)
(*   queue     : the built-in TrackQueue, front is the playing track       *)
(*   listeners : number of global Track(End) handlers registered           *)
(***************************************************************************)
NoCall ==
    [present |-> FALSE, channel |-> NoChannel, joining |-> NoChannel,
     queue |-> <<>>, listeners |-> 0]

NoCur == [member |-> NoMember, channel |-> NoChannel, guild |-> NoGuild,
          intro |-> NoIntro, kind |-> ""]

VARIABLES
    settings,     \* Arc<Mutex<Settings>>
    inbox,        \* the mpsc channel's buffer
    nSent,        \* number of messages appended to the channel so far
    consumed,     \* seq numbers of the messages rx.recv() returned, in order
    pc,           \* position of the consumer task
    cur,          \* the PlaySound being handled by the consumer
    calls,        \* the Songbird manager: guild -> Call
    actPending,   \* per guild: global handlers still to run for a track end
    log,          \* per guild: join, enqueue and leave calls issued so far,
                  \* and the channels the join calls were for
    lastLog,      \* the last log line of the consumer
    nVoiceEvents, \* voice_state_update callbacks so far
    nReadyEvents, \* ready callbacks so far
    perm,         \* auth.rs: the u8 of one user's Permissions
    asked,        \* the last Permissions::can call and its result
    clientAlive,  \* client.start() has not returned: the Handler and its tx live
    botIgnored,   \* a voice join of the bot's own user was dropped by the Handler
    channelNames, \* the gateway cache: channel id -> channel.name()
    settingsLock, \* the holder of the Mutex<Settings>: "free", "consumer", "api"
    lockOrder,    \* the locks the consumer took for its last message, in order
    api,          \* the dashboard request in progress or answered last
    nApiCalls     \* dashboard requests so far

permVars == <<perm, asked>>

cbVars == <<clientAlive, botIgnored>>

envVars == <<channelNames, api, nApiCalls>>

lockVars == <<settingsLock, lockOrder>>

\* no dashboard request yet
NoRequest == [route |-> "none", stage |-> "idle", result |-> "none",
              token |-> "", guild |-> NoGuild, name |-> ""]

\* channel.name() of a cached channel, main.rs:237
ChannelName(c) == channelNames[c]

vars == <<settings, inbox, nSent, consumed, pc, cur, calls,
          actPending, log, lastLog, nVoiceEvents, nReadyEvents, perm, asked,
          clientAlive, botIgnored, channelNames, settingsLock, lockOrder,
          api, nApiCalls>>

(***************************************************************************)
(* Intro resolution, main.rs:228-282.  cached is the outcome of            *)
(* channel_id.to_channel_cached(&ctx.cache).  The result is the tag of the *)
(* branch taken and, for "ok", the first intro of the member's list and    *)
(* its kind.                                                               *)
(***************************************************************************)
Lookup(tag, intro, kind) == [tag |-> tag, intro |-> intro, kind |-> kind]

\* a selection that takes the newest entry of the list
LastIntro(intros) == intros[Len(intros)]

FirstIntro(intros) == intros[1]

\* a resolver that falls back to some intro of the guild when the member
\* has none configured
ResolveWithFallback(s, cached, m, c) ==
    IF ~cached THEN Lookup("NoCachedChannel", NoIntro, "")
    ELSE IF ChannelGuild(c) \notin DOMAIN s.guilds
         THEN Lookup("NoGuildSettings", NoIntro, "")
    ELSE LET gs == s.guilds[ChannelGuild(c)] IN
         IF ChannelName(c) \notin DOMAIN gs.channels
         THEN Lookup("NoChannelSettings", NoIntro, "")
    ELSE LET cs == gs.channels[ChannelName(c)]
             any == CHOOSE i \in DOMAIN gs.intros : TRUE IN
         IF m \notin DOMAIN cs.users \/ cs.users[m] = <<>>
         THEN Lookup("ok", any, gs.intros[any])
    ELSE LET idx == FirstIntro(cs.users[m]) IN
         IF idx \notin DOMAIN gs.intros
         THEN Lookup("IntroNotFound", idx, "")
         ELSE Lookup("ok", idx, gs.intros[idx])

Resolve(s, cached, m, c) ==
    IF ~cached THEN Lookup("NoCachedChannel", NoIntro, "")
    ELSE IF ChannelGuild(c) \notin DOMAIN s.guilds
         THEN Lookup("NoGuildSettings", NoIntro, "")
    ELSE LET gs == s.guilds[ChannelGuild(c)] IN
         IF ChannelName(c) \notin DOMAIN gs.channels
         THEN Lookup("NoChannelSettings", NoIntro, "")
    ELSE LET cs == gs.channels[ChannelName(c)] IN
         IF m \notin DOMAIN cs.users
         THEN Lookup("NoUserSettings", NoIntro, "")
    ELSE IF cs.users[m] = <<>>
         THEN Lookup("NoUserIntro", NoIntro, "")
    ELSE LET idx == FirstIntro(cs.users[m]) IN
         IF idx \notin DOMAIN gs.intros
         THEN Lookup("IntroNotFound", idx, "")
         ELSE Lookup("ok", idx, gs.intros[idx])

(***************************************************************************)
(* songbird operations on a Call.                                          *)
(***************************************************************************)
GetOrInsert(call) == [call EXCEPT !.present = TRUE]

AddGlobalEvent(call) == [call EXCEPT !.listeners = @ + 1]

StartJoin(call, c) == [call EXCEPT !.joining = c]

JoinOk(call, c) == [call EXCEPT !.channel = c, !.joining = NoChannel]

EnqueueSource(call, track) == [call EXCEPT !.queue = Append(@, track)]

Leave(call) == [call EXCEPT !.channel = NoChannel, !.joining = NoChannel]

\* main.rs:194-206: one handler more on the Call of every configured guild
RegisterListeners(cs, s) ==
    [g \in Guilds |-> IF g \in DOMAIN s.guilds
                      THEN AddGlobalEvent(GetOrInsert(cs[g]))
                      ELSE cs[g]]

\* a manager that keeps its sessions per member instead of per guild
JoinGuildPerMember(c) == IF c.member = "alice" THEN 1 ELSE 2

\* main.rs:284: songbird.join(member.guild_id, channel_id)
JoinGuild(c) == c.guild

\* a loop that is left instead of continued
LoopBreak == "done"

\* the `continue` of a failed lookup or acquisition, and the end of a match arm
LoopContinue == "recv"

\* one more call op issued for guild g
Issued(l, op, g) == [l EXCEPT ![g][op] = @ + 1]

\* a join call issued for channel c of guild g
IssuedJoin(l, g, c) ==
    [l EXCEPT ![g].join = @ + 1, ![g].joined = @ \cup {c}]

NoCalls == [join |-> 0, enqueue |-> 0, leave |-> 0, joined |-> {}]

Track(c) == [intro |-> c.intro, channel |-> c.channel]

\* the tracing macro each log line of the consumer is written with:
\* info! at main.rs:189, 209, 215, 225; error! everywhere else
LogLevel(line) ==
    IF line \in {"GotReady", "GotTrackEnded", "Leaving", "GotPlaySound"}
    THEN "info"
    ELSE IF line = "none" THEN "none"
    ELSE "error"

(***************************************************************************)
(* auth.rs: Permissions(u8) and the Permission flags.                      *)
(***************************************************************************)
PermNone == 0
UploadSounds == 1
DeleteSounds == 2
Soundboard == 4
Moderator == 128

Permission == {PermNone, UploadSounds, DeleteSounds, Soundboard, Moderator}

U8 == 0..255

RECURSIVE BitAnd(_, _)
BitAnd(a, b) ==
    IF a = 0 \/ b = 0 THEN 0
    ELSE (a % 2) * (b % 2) + 2 * BitAnd(a \div 2, b \div 2)

RECURSIVE BitOr(_, _)
BitOr(a, b) ==
    IF a = 0 THEN b
    ELSE IF b = 0 THEN a
    ELSE (IF a % 2 = 1 \/ b % 2 = 1 THEN 1 ELSE 0) + 2 * BitOr(a \div 2, b \div 2)

\* a can() that looks at the bit of the capability only
CanOwnBitOnly(p, x) == BitAnd(p, x) > 0

\* a can() for which any granted permission is as good as another
CanAnyBit(p, x) == p > 0 \/ BitAnd(p, Moderator) > 0

\* Permissions::can, auth.rs:38-40
Can(p, x) == BitAnd(p, x) > 0 \/ BitAnd(p, Moderator) > 0

\* Permissions::add, auth.rs:42-44
Add(p, x) == BitOr(p, x)

NoQuery == [made |-> FALSE, perm |-> 0, x |-> 0, result |-> FALSE]

(***************************************************************************)
(* Initial state: spawn_bot has created the channel and both tasks.        *)
(***************************************************************************)
Init ==
    /\ settings = InitSettings
    /\ inbox = <<>>
    /\ nSent = 0
    /\ consumed = <<>>
    /\ pc = "recv"
    /\ cur = NoCur
    /\ calls = [g \in Guilds |-> NoCall]
    /\ actPending = [g \in Guilds |-> 0]
    /\ log = [g \in Guilds |-> NoCalls]
    /\ lastLog = "none"
    /\ nVoiceEvents = 0
    /\ nReadyEvents = 0
    /\ perm = 0
    /\ asked = NoQuery
    /\ clientAlive = TRUE
    /\ botIgnored = FALSE
    /\ channelNames = CacheNames
    /\ settingsLock = "free"
    /\ lockOrder = <<>>
    /\ api = NoRequest
    /\ nApiCalls = 0

(***************************************************************************)
(* Producers.                                                              *)
(***************************************************************************)
\* a send that gives up and drops the message when the channel is full
SendOrDrop(msg) ==
    /\ inbox' = IF Len(inbox) < InboxCapacity
                THEN Append(inbox, Stamp(msg, nSent + 1))
                ELSE inbox
    /\ nSent' = nSent + 1

\* tx.send(msg).await: the message is appended when the channel has room
Send(msg) ==
    /\ Len(inbox) < InboxCapacity
    /\ inbox' = Append(inbox, Stamp(msg, nSent + 1))
    /\ nSent' = nSent + 1

\* Handler::ready, main.rs:70-82
ReadyCallback ==
    /\ clientAlive
    /\ nReadyEvents < MaxReadyEvents
    /\ nReadyEvents' = nReadyEvents + 1
    /\ Send(ReadyMsg)
    /\ UNCHANGED <<settings, consumed, pc, cur, calls, actPending, log,
                   lastLog, nVoiceEvents>>
    /\ UNCHANGED lockVars
    /\ UNCHANGED permVars
    /\ UNCHANGED envVars
    /\ UNCHANGED cbVars

\* whether the event is a voice join of the bot's own user, main.rs:85-89
IsOwnJoin(oldSome, m, c) ==
    ~oldSome /\ m # NoMember /\ c # NoChannel /\ m = BotName

\* a voice_state_update without the check of the member's name
VoiceStateUpdateNoNameCheck(oldSome, m, c) ==
    /\ clientAlive
    /\ nVoiceEvents < MaxVoiceEvents
    /\ (m # NoMember /\ c # NoChannel) => m \in GuildMembers(ChannelGuild(c))
    /\ nVoiceEvents' = nVoiceEvents + 1
    /\ IF ~oldSome /\ m # NoMember /\ c # NoChannel
       THEN Send(PlaySoundMsg(m, c))
       ELSE UNCHANGED <<inbox, nSent>>
    /\ botIgnored' = (botIgnored \/ IsOwnJoin(oldSome, m, c))
    /\ UNCHANGED <<settings, consumed, pc, cur, calls, actPending, log,
                   lastLog, nReadyEvents>>
    /\ UNCHANGED lockVars
    /\ UNCHANGED permVars
    /\ UNCHANGED envVars
    /\ UNCHANGED clientAlive

\* Handler::voice_state_update, main.rs:84-116
VoiceStateUpdate(oldSome, m, c) ==
    /\ clientAlive
    /\ nVoiceEvents < MaxVoiceEvents
    /\ (m # NoMember /\ c # NoChannel) => m \in GuildMembers(ChannelGuild(c))
    /\ nVoiceEvents' = nVoiceEvents + 1
    /\ IF ~oldSome /\ m # NoMember /\ c # NoChannel /\ m # BotName
       THEN Send(PlaySoundMsg(m, c))
       ELSE UNCHANGED <<inbox, nSent>>
    /\ botIgnored' = (botIgnored \/ IsOwnJoin(oldSome, m, c))
    /\ UNCHANGED <<settings, consumed, pc, cur, calls, actPending, log,
                   lastLog, nReadyEvents>>
    /\ UNCHANGED lockVars
    /\ UNCHANGED permVars
    /\ UNCHANGED envVars
    /\ UNCHANGED clientAlive

\* The playing track of a guild ends: the queue's own handler removes it,
\* then every global Track(End) handler of the Call is run.
TrackEnds(g) ==
    /\ calls[g].channel # NoChannel
    /\ calls[g].queue # <<>>
    /\ actPending[g] = 0
    /\ calls' = [calls EXCEPT ![g].queue = Tail(@)]
    /\ actPending' = [actPending EXCEPT ![g] = calls[g].listeners]
    /\ UNCHANGED <<settings, inbox, nSent, consumed, pc, cur, log,
                   lastLog, nVoiceEvents, nReadyEvents>>
    /\ UNCHANGED lockVars
    /\ UNCHANGED permVars
    /\ UNCHANGED envVars
    /\ UNCHANGED cbVars

\* a completion callback that leaves the channel itself
ActLeaves(g) ==
    /\ actPending[g] > 0
    /\ actPending' = [actPending EXCEPT ![g] = @ - 1]
    /\ IF calls[g].queue = <<>>
       THEN /\ calls' = [calls EXCEPT ![g] = Leave(@)]
            /\ log' = Issued(log, "leave", g)
       ELSE UNCHANGED <<calls, log>>
    /\ UNCHANGED <<settings, inbox, nSent, consumed, pc, cur, lastLog,
                   nVoiceEvents, nReadyEvents>>
    /\ UNCHANGED lockVars
    /\ UNCHANGED permVars
    /\ UNCHANGED envVars
    /\ UNCHANGED cbVars

\* TrackEventHandler::act, main.rs:50-65
Act(g) ==
    /\ actPending[g] > 0
    /\ actPending' = [actPending EXCEPT ![g] = @ - 1]
    /\ Send(TrackEndedMsg(g))
    /\ UNCHANGED <<settings, consumed, pc, cur, calls, log, lastLog,
                   nVoiceEvents, nReadyEvents>>
    /\ UNCHANGED lockVars
    /\ UNCHANGED permVars
    /\ UNCHANGED envVars
    /\ UNCHANGED cbVars

(***************************************************************************)
(* The consumer task, main.rs:185-299.                                     *)
(***************************************************************************)
\* a receive that takes the newest message of the channel
RecvNewest(q) == q[Len(q)]

\* rx.recv(): the oldest message of the channel
Recv(q) == Head(q)

Received ==
    /\ pc = "recv"
    /\ inbox # <<>>
    /\ inbox' = Tail(inbox)
    /\ consumed' = Append(consumed, Recv(inbox).seq)

\* HandlerMessage::Ready, main.rs:188-207
HandleReady ==
    /\ settingsLock = "free"
    /\ Received
    /\ Recv(inbox).type = "Ready"
    /\ calls' = RegisterListeners(calls, settings)
    /\ lastLog' = "GotReady"
    /\ pc' = LoopContinue
    /\ UNCHANGED <<settings, nSent, cur, actPending, log,
                   nVoiceEvents, nReadyEvents>>
    /\ settingsLock' = "free"
    /\ lockOrder' = <<"settings", "call">>
    /\ UNCHANGED permVars
    /\ UNCHANGED envVars
    /\ UNCHANGED cbVars

\* a TrackEnded arm that propagates the error of leave() out of the loop
HandleTrackEndedPropagates(ok) ==
    /\ Received
    /\ Recv(inbox).type = "TrackEnded"
    /\ LET g == Recv(inbox).guild IN
       IF calls[g].present /\ calls[g].queue = <<>>
       THEN /\ calls' = [calls EXCEPT ![g] = Leave(@)]
            /\ log' = Issued(log, "leave", g)
            /\ lastLog' = IF ok THEN "Leaving" ELSE "LeaveFailed"
            /\ pc' = IF ok THEN LoopContinue ELSE "done"
       ELSE /\ ok
            /\ UNCHANGED <<calls, log>>
            /\ lastLog' = "GotTrackEnded"
            /\ pc' = LoopContinue
    /\ UNCHANGED <<settings, nSent, cur, actPending,
                   nVoiceEvents, nReadyEvents>>
    /\ UNCHANGED settingsLock
    /\ lockOrder' = IF calls[Recv(inbox).guild].present THEN <<"call">> ELSE <<>>
    /\ UNCHANGED permVars
    /\ UNCHANGED envVars
    /\ UNCHANGED cbVars

\* a TrackEnded arm that leaves without looking at the queue
HandleTrackEndedAlwaysLeaves(ok) ==
    /\ Received
    /\ Recv(inbox).type = "TrackEnded"
    /\ LET g == Recv(inbox).guild IN
       IF calls[g].present
       THEN /\ calls' = [calls EXCEPT ![g] = Leave(@)]
            /\ log' = Issued(log, "leave", g)
            /\ lastLog' = IF ok THEN "Leaving" ELSE "LeaveFailed"
       ELSE /\ ok
            /\ UNCHANGED <<calls, log>>
            /\ lastLog' = "GotTrackEnded"
    /\ pc' = LoopContinue
    /\ UNCHANGED <<settings, nSent, cur, actPending,
                   nVoiceEvents, nReadyEvents>>
    /\ UNCHANGED settingsLock
    /\ lockOrder' = IF calls[Recv(inbox).guild].present THEN <<"call">> ELSE <<>>
    /\ UNCHANGED permVars
    /\ UNCHANGED envVars
    /\ UNCHANGED cbVars

\* a TrackEnded arm whose failed leave() is tried once more and leaves the
\* Call connected
HandleTrackEndedRetries(ok) ==
    /\ Received
    /\ Recv(inbox).type = "TrackEnded"
    /\ LET g == Recv(inbox).guild IN
       IF calls[g].present /\ calls[g].queue = <<>>
       THEN /\ calls' = IF ok THEN [calls EXCEPT ![g] = Leave(@)] ELSE calls
            /\ log' = IF ok THEN Issued(log, "leave", g)
                      ELSE Issued(Issued(log, "leave", g), "leave", g)
            /\ lastLog' = IF ok THEN "Leaving" ELSE "LeaveFailed"
       ELSE /\ ok
            /\ UNCHANGED <<calls, log>>
            /\ lastLog' = "GotTrackEnded"
    /\ pc' = LoopContinue
    /\ UNCHANGED <<settings, nSent, cur, actPending,
                   nVoiceEvents, nReadyEvents>>
    /\ UNCHANGED settingsLock
    /\ lockOrder' = IF calls[Recv(inbox).guild].present THEN <<"call">> ELSE <<>>
    /\ UNCHANGED permVars
    /\ UNCHANGED envVars
    /\ UNCHANGED cbVars

\* HandlerMessage::TrackEnded, main.rs:208-222; ok is the result of leave()
HandleTrackEnded(ok) ==
    /\ Received
    /\ Recv(inbox).type = "TrackEnded"
    /\ LET g == Recv(inbox).guild IN
       IF calls[g].present /\ calls[g].queue = <<>>
       THEN /\ calls' = [calls EXCEPT ![g] = Leave(@)]
            /\ log' = Issued(log, "leave", g)
            /\ lastLog' = IF ok THEN "Leaving" ELSE "LeaveFailed"
       ELSE /\ ok
            /\ UNCHANGED <<calls, log>>
            /\ lastLog' = "GotTrackEnded"
    /\ pc' = LoopContinue
    /\ UNCHANGED <<settings, nSent, cur, actPending,
                   nVoiceEvents, nReadyEvents>>
    /\ UNCHANGED settingsLock
    /\ lockOrder' = IF calls[Recv(inbox).guild].present THEN <<"call">> ELSE <<>>
    /\ UNCHANGED permVars
    /\ UNCHANGED envVars
    /\ UNCHANGED cbVars

\* a PlaySound arm that drops the settings guard once the intro is resolved
HandlePlaySoundReleasesLock(cached) ==
    /\ settingsLock = "free"
    /\ Received
    /\ Recv(inbox).type = "PlaySound"
    /\ LET msg == Recv(inbox)
           r == Resolve(settings, cached, msg.member, msg.channel) IN
       IF r.tag = "ok"
       THEN /\ pc' = "acquire"
            /\ cur' = [member |-> msg.member, channel |-> msg.channel,
                       guild |-> msg.guild, intro |-> r.intro, kind |-> r.kind]
            /\ lastLog' = "GotPlaySound"
       ELSE /\ pc' = LoopContinue
            /\ cur' = NoCur
            /\ lastLog' = r.tag
    /\ UNCHANGED <<settings, nSent, calls, actPending, log,
                   nVoiceEvents, nReadyEvents>>
    /\ settingsLock' = "free"
    /\ lockOrder' = <<"settings">>
    /\ UNCHANGED permVars
    /\ UNCHANGED envVars
    /\ UNCHANGED cbVars

\* a PlaySound arm whose settings guard outlives the arm when a lookup fails
HandlePlaySoundKeepsLock(cached) ==
    /\ settingsLock = "free"
    /\ Received
    /\ Recv(inbox).type = "PlaySound"
    /\ LET msg == Recv(inbox)
           r == Resolve(settings, cached, msg.member, msg.channel) IN
       IF r.tag = "ok"
       THEN /\ pc' = "acquire"
            /\ cur' = [member |-> msg.member, channel |-> msg.channel,
                       guild |-> msg.guild, intro |-> r.intro, kind |-> r.kind]
            /\ lastLog' = "GotPlaySound"
       ELSE /\ pc' = LoopContinue
            /\ cur' = NoCur
            /\ lastLog' = r.tag
    /\ UNCHANGED <<settings, nSent, calls, actPending, log,
                   nVoiceEvents, nReadyEvents>>
    /\ settingsLock' = "consumer"
    /\ lockOrder' = <<"settings">>
    /\ UNCHANGED permVars
    /\ UNCHANGED envVars
    /\ UNCHANGED cbVars

\* HandlerMessage::PlaySound, main.rs:224-282, up to the acquisition
HandlePlaySound(cached) ==
    /\ settingsLock = "free"
    /\ Received
    /\ Recv(inbox).type = "PlaySound"
    /\ LET msg == Recv(inbox)
           r == Resolve(settings, cached, msg.member, msg.channel) IN
       IF r.tag = "ok"
       THEN /\ pc' = "acquire"
            /\ cur' = [member |-> msg.member, channel |-> msg.channel,
                       guild |-> msg.guild, intro |-> r.intro, kind |-> r.kind]
            /\ lastLog' = "GotPlaySound"
       ELSE /\ pc' = LoopContinue
            /\ cur' = NoCur
            /\ lastLog' = r.tag
    /\ UNCHANGED <<settings, nSent, calls, actPending, log,
                   nVoiceEvents, nReadyEvents>>
    /\ settingsLock' = IF pc' = "acquire" THEN "consumer" ELSE "free"
    /\ lockOrder' = <<"settings">>
    /\ UNCHANGED permVars
    /\ UNCHANGED envVars
    /\ UNCHANGED cbVars

\* an acquisition whose error arm logs and falls through to the join
AcquireDoneFallsThrough(ok) ==
    /\ pc = "acquire"
    /\ calls' = [calls EXCEPT ![JoinGuild(cur)] =
                    StartJoin(GetOrInsert(@), cur.channel)]
    /\ log' = IssuedJoin(log, JoinGuild(cur), cur.channel)
    /\ pc' = "join"
    /\ lastLog' = IF ok THEN lastLog
                  ELSE IF cur.kind = "Online" THEN "YtdlError" ELSE "FfmpegError"
    /\ UNCHANGED <<settings, inbox, nSent, consumed, actPending,
                   cur, nVoiceEvents, nReadyEvents>>
    /\ UNCHANGED lockVars
    /\ UNCHANGED permVars
    /\ UNCHANGED envVars
    /\ UNCHANGED cbVars

\* songbird::ytdl / songbird::ffmpeg returns, main.rs:252-271; on success
\* songbird.join is called, main.rs:284
AcquireDone(ok) ==
    /\ pc = "acquire"
    /\ IF ok
       THEN /\ calls' = [calls EXCEPT ![JoinGuild(cur)] =
                            StartJoin(GetOrInsert(@), cur.channel)]
            /\ log' = IssuedJoin(log, JoinGuild(cur), cur.channel)
            /\ pc' = "join"
            /\ UNCHANGED <<cur, lastLog>>
       ELSE /\ lastLog' = IF cur.kind = "Online" THEN "YtdlError" ELSE "FfmpegError"
            /\ pc' = LoopContinue
            /\ cur' = NoCur
            /\ UNCHANGED <<calls, log>>
    /\ UNCHANGED <<settings, inbox, nSent, consumed, actPending,
                   nVoiceEvents, nReadyEvents>>
    /\ settingsLock' = IF ok THEN settingsLock ELSE "free"
    /\ UNCHANGED lockOrder
    /\ UNCHANGED permVars
    /\ UNCHANGED envVars
    /\ UNCHANGED cbVars

\* a join result match that enqueues the source in the error arm too
JoinDoneEnqueuesAnyway(ok) ==
    /\ pc = "join"
    /\ calls' = [calls EXCEPT ![JoinGuild(cur)] =
                    EnqueueSource(IF ok THEN JoinOk(@, cur.channel) ELSE @,
                                  Track(cur))]
    /\ log' = Issued(log, "enqueue", JoinGuild(cur))
    /\ lastLog' = IF ok THEN lastLog ELSE "JoinFailed"
    /\ pc' = LoopContinue
    /\ cur' = NoCur
    /\ UNCHANGED <<settings, inbox, nSent, consumed, actPending,
                   nVoiceEvents, nReadyEvents>>
    /\ settingsLock' = "free"
    /\ lockOrder' = IF ok THEN Append(lockOrder, "call") ELSE lockOrder
    /\ UNCHANGED permVars
    /\ UNCHANGED envVars
    /\ UNCHANGED cbVars

\* songbird.join returns, main.rs:284-295
JoinDone(ok) ==
    /\ pc = "join"
    /\ IF ok
       THEN /\ calls' = [calls EXCEPT ![JoinGuild(cur)] =
                            EnqueueSource(JoinOk(@, cur.channel), Track(cur))]
            /\ log' = Issued(log, "enqueue", JoinGuild(cur))
            /\ UNCHANGED lastLog
       ELSE /\ lastLog' = "JoinFailed"
            /\ UNCHANGED <<calls, log>>
    /\ pc' = LoopContinue
    /\ cur' = NoCur
    /\ UNCHANGED <<settings, inbox, nSent, consumed, actPending,
                   nVoiceEvents, nReadyEvents>>
    /\ settingsLock' = "free"
    /\ lockOrder' = IF ok THEN Append(lockOrder, "call") ELSE lockOrder
    /\ UNCHANGED permVars
    /\ UNCHANGED envVars
    /\ UNCHANGED cbVars

Next ==
    \/ ReadyCallback
    \/ \E oldSome \in BOOLEAN, m \in Members \cup {NoMember},
          c \in Channels \cup {NoChannel} : VoiceStateUpdate(oldSome, m, c)
    \/ \E g \in Guilds : TrackEnds(g)
    \/ \E g \in Guilds : Act(g)
    \/ HandleReady
    \/ \E ok \in BOOLEAN : HandleTrackEnded(ok)
    \/ \E cached \in BOOLEAN : HandlePlaySound(cached)
    \/ \E ok \in BOOLEAN : AcquireDone(ok)
    \/ \E ok \in BOOLEAN : JoinDone(ok)

Spec == Init /\ [][Next]_vars

(***************************************************************************)
(* Shutdown of the gateway client, main.rs:164-187.                        *)
(***************************************************************************)
\* client.start() returns (main.rs:179-183): the client task ends and drops
\* the client with its Handler, and so the Handler's sender
ClientStops ==
    /\ clientAlive
    /\ clientAlive' = FALSE
    /\ UNCHANGED <<settings, inbox, nSent, consumed, pc, cur, calls,
                   actPending, log, lastLog, nVoiceEvents, nReadyEvents>>
    /\ UNCHANGED lockVars
    /\ UNCHANGED permVars
    /\ UNCHANGED envVars
    /\ UNCHANGED botIgnored

\* the Senders of the channel that are alive: the Handler's (main.rs:172),
\* the tx the consumer's own async block captured for the clones of the Ready
\* arm (main.rs:185, 202), and one clone in every registered TrackEventHandler
Senders ==
    (IF clientAlive THEN 1 ELSE 0)
    + (IF pc # "done" THEN 1 ELSE 0)
    + calls[1].listeners + calls[2].listeners + calls[3].listeners

\* rx.recv() returns None, which ends `while let Some(msg)`, main.rs:186:
\* tokio's recv does so when the buffer is empty and every Sender is dropped
RecvNone ==
    /\ pc = "recv"
    /\ inbox = <<>>
    /\ Senders = 0
    /\ pc' = "done"
    /\ UNCHANGED <<settings, inbox, nSent, consumed, cur, calls,
                   actPending, log, lastLog, nVoiceEvents, nReadyEvents>>
    /\ UNCHANGED lockVars
    /\ UNCHANGED permVars
    /\ UNCHANGED envVars
    /\ UNCHANGED cbVars

NextShutdown ==
    \/ Next
    \/ ClientStops

SpecShutdown == Init /\ [][NextShutdown]_vars

(***************************************************************************)
(* A guild with two voice channels of the same name: Discord does not      *)
(* require channel names to be unique.                                     *)
(***************************************************************************)
InitSameName ==
    /\ settings = InitSettings
    /\ inbox = <<>>
    /\ nSent = 0
    /\ consumed = <<>>
    /\ pc = "recv"
    /\ cur = NoCur
    /\ calls = [g \in Guilds |-> NoCall]
    /\ actPending = [g \in Guilds |-> 0]
    /\ log = [g \in Guilds |-> NoCalls]
    /\ lastLog = "none"
    /\ nVoiceEvents = 0
    /\ nReadyEvents = 0
    /\ perm = 0
    /\ asked = NoQuery
    /\ clientAlive = TRUE
    /\ botIgnored = FALSE
    /\ channelNames = SameNames
    /\ settingsLock = "free"
    /\ lockOrder = <<>>
    /\ api = NoRequest
    /\ nApiCalls = 0

SpecSameName == InitSameName /\ [][Next]_vars

(***************************************************************************)
(* A burst of voice joins: Burst joins of a guild without settings are     *)
(* waiting in the channel, and one voice event and one Ready are still to  *)
(* come.                                                                   *)
(***************************************************************************)
InitBurst ==
    /\ settings = InitSettings
    /\ inbox = [i \in 1..Burst |-> Stamp(PlaySoundMsg("eve", 31), i)]
    /\ nSent = Burst
    /\ consumed = <<>>
    /\ pc = "recv"
    /\ cur = NoCur
    /\ calls = [g \in Guilds |-> NoCall]
    /\ actPending = [g \in Guilds |-> 0]
    /\ log = [g \in Guilds |-> NoCalls]
    /\ lastLog = "none"
    /\ nVoiceEvents = MaxVoiceEvents - 1
    /\ nReadyEvents = MaxReadyEvents - 1
    /\ perm = 0
    /\ asked = NoQuery
    /\ clientAlive = TRUE
    /\ botIgnored = FALSE
    /\ channelNames = CacheNames
    /\ settingsLock = "free"
    /\ lockOrder = <<>>
    /\ api = NoRequest
    /\ nApiCalls = 0

SpecBurst == InitBurst /\ [][Next]_vars

(***************************************************************************)
(* The dashboard API, routes.rs: every handler takes the settings lock     *)
(* first and holds it until it returns.  The configuration below is        *)
(* consistent: every index of a member's list is an intro of the guild.    *)
(* alice may upload and delete sounds, bob may only use the soundboard,    *)
(* eve is a moderator; carol has logged in and is a user of no guild.      *)
(***************************************************************************)
ApiSettings ==
    [guilds |->
        (1 :> [channels |->
                  ("general" :> [users |-> ("alice" :> <<"f1">>)
                                        @@ ("bob" :> <<>>)]),
               intros |-> ("f1" :> "File"),
               users |-> ("alice" :> UploadSounds + DeleteSounds)
                      @@ ("bob" :> Soundboard)
                      @@ ("eve" :> Moderator)]),
     auth_users |-> ("ta" :> "alice") @@ ("tb" :> "bob") @@ ("te" :> "eve")
                 @@ ("tc" :> "carol")]

\* the inputs of the requests: "" is a request without a token header, "tx"
\* a token nobody holds, 3 a guild without settings, "afk" a channel without
\* settings, "nope" the index of no intro
NoToken == ""
Tokens == {"ta", "tb", "te", "tc", "tx", NoToken}
ApiGuilds == {1, 3}
ApiChannels == {"general", "afk"}
ApiIntros == {"f1", "nope"}
DeleteBodies == {{"f1"}, {"nope"}}

\* Uuid::new_v4(): a name no intro has yet
UuidPool == {"u1", "u2", "u3", "u4"}

NewUuid(s, g) == CHOOSE u \in UuidPool : u \notin DOMAIN s.guilds[g].intros

\* a check that lets every user of the guild through
AuthorizeAnyGuildUser(s, token, hasParams, g, needed) ==
    IF token = NoToken THEN "NoUserFound"
    ELSE IF ~hasParams THEN "InvalidRequest"
    ELSE IF g \notin DOMAIN s.guilds THEN "NoGuildFound"
    ELSE IF token \notin DOMAIN s.auth_users THEN "NoUserFound"
    ELSE IF s.auth_users[token] \notin DOMAIN s.guilds[g].users THEN "NoUserFound"
    ELSE "ok"

\* the checks of upload_guild_intro, add_guild_intro and delete_guild_intro
\* before they change anything, routes.rs:563-586, 620-645, 683-703
Authorize(s, token, hasParams, g, needed) ==
    IF token = NoToken THEN "NoUserFound"
    ELSE IF ~hasParams THEN "InvalidRequest"
    ELSE IF g \notin DOMAIN s.guilds THEN "NoGuildFound"
    ELSE IF token \notin DOMAIN s.auth_users THEN "NoUserFound"
    ELSE IF s.auth_users[token] \notin DOMAIN s.guilds[g].users THEN "NoUserFound"
    ELSE IF ~Can(s.guilds[g].users[s.auth_users[token]], needed)
         THEN "InvalidPermission"
    ELSE "ok"

\* guild.intros.insert(uuid, Intro::File(..)), routes.rs:601-607, 666-672
InsertIntro(s, g, uuid) ==
    [s EXCEPT !.guilds[g].intros = (uuid :> "File") @@ @]

\* user.intros.retain(..) for every user of every channel, then
\* guild.intros.remove(intro) for every intro of the body, routes.rs:709-721
Retain(list, body) == SelectSeq(list, LAMBDA i : i \notin body)

RemoveIntros(s, g, body) ==
    [s EXCEPT
       !.guilds[g].channels =
           [ch \in DOMAIN @ |->
               [users |-> [u \in DOMAIN @[ch].users |-> Retain(@[ch].users[u], body)]]],
       !.guilds[g].intros = [i \in (DOMAIN @) \ body |-> @[i]]]

\* the entry add_intro_to_user and remove_intro_to_user work on, if the token,
\* the guild, the channel and the user all exist, routes.rs:418-435, 455-472
HasEntry(s, token, g, ch) ==
    /\ token # NoToken
    /\ token \in DOMAIN s.auth_users
    /\ g \in DOMAIN s.guilds
    /\ ch \in DOMAIN s.guilds[g].channels
    /\ s.auth_users[token] \in DOMAIN s.guilds[g].channels[ch].users

Entry(s, token, g, ch) == s.guilds[g].channels[ch].users[s.auth_users[token]]

SetEntry(s, token, g, ch, list) ==
    [s EXCEPT !.guilds[g].channels[ch].users[s.auth_users[token]] = list]

InSeq(list, x) == \E i \in 1..Len(list) : list[i] = x

\* intros.remove(position of the first entry with the index)
RemoveFirst(list, x) ==
    LET pos == CHOOSE i \in 1..Len(list) :
                   list[i] = x /\ \A j \in 1..(i - 1) : list[j] # x
    IN  SubSeq(list, 1, pos - 1) \o SubSeq(list, pos + 1, Len(list))

Request(route, token, g, result) ==
    [route |-> route, stage |-> "idle", result |-> result,
     token |-> token, guild |-> g, name |-> ""]

botVars == <<inbox, nSent, consumed, pc, cur, calls, actPending, log, lastLog,
             nVoiceEvents, nReadyEvents>>

\* state.settings.lock().await at the top of a handler: the request is taken
\* up when the lock is free
TakesLock ==
    /\ nApiCalls < MaxApiCalls
    /\ settingsLock = "free"
    /\ nApiCalls' = nApiCalls + 1
    /\ UNCHANGED <<botVars, permVars, cbVars, channelNames, lockOrder>>

\* add_intro_to_user, routes.rs:413-448
AddIntroToUser(token, g, ch, idx) ==
    /\ TakesLock
    /\ settings' = IF HasEntry(settings, token, g, ch)
                      /\ ~InSeq(Entry(settings, token, g, ch), idx)
                   THEN SetEntry(settings, token, g, ch,
                                 Append(Entry(settings, token, g, ch), idx))
                   ELSE settings
    /\ api' = Request("add_intro_to_user", token, g, "ok")
    /\ UNCHANGED settingsLock

\* remove_intro_to_user, routes.rs:450-486
RemoveIntroToUser(token, g, ch, idx) ==
    /\ TakesLock
    /\ settings' = IF HasEntry(settings, token, g, ch)
                      /\ InSeq(Entry(settings, token, g, ch), idx)
                   THEN SetEntry(settings, token, g, ch,
                                 RemoveFirst(Entry(settings, token, g, ch), idx))
                   ELSE settings
    /\ api' = Request("remove_intro_to_user", token, g, "ok")
    /\ UNCHANGED settingsLock

\* upload_guild_intro and add_guild_intro up to the await of the external
\* process (media::normalize, yt-dlp): the lock stays held while it runs
GuildIntroBegin(route, token, hasParams, g) ==
    /\ TakesLock
    /\ LET r == Authorize(settings, token, hasParams, g, UploadSounds) IN
       IF r = "ok"
       THEN /\ api' = [Request(route, token, g, "none") EXCEPT !.stage = "process"]
            /\ settingsLock' = "api"
       ELSE /\ api' = Request(route, token, g, r)
            /\ UNCHANGED settingsLock
    /\ UNCHANGED settings

\* the external process has ended: on success the intro is inserted
GuildIntroDone(route, ok, error) ==
    /\ api.route = route
    /\ api.stage = "process"
    /\ settingsLock = "api"
    /\ IF ok
       THEN LET uuid == NewUuid(settings, api.guild) IN
            /\ settings' = InsertIntro(settings, api.guild, uuid)
            /\ api' = [api EXCEPT !.stage = "idle", !.result = "ok", !.name = uuid]
       ELSE /\ UNCHANGED settings
            /\ api' = [api EXCEPT !.stage = "idle", !.result = error]
    /\ settingsLock' = "free"
    /\ UNCHANGED <<botVars, permVars, cbVars, channelNames, lockOrder, nApiCalls>>

\* upload_guild_intro, routes.rs:556-610
UploadGuildIntro(token, hasParams, g) ==
    GuildIntroBegin("upload_guild_intro", token, hasParams, g)

UploadGuildIntroDone(ok) == GuildIntroDone("upload_guild_intro", ok, "Ffmpeg")

\* add_guild_intro, routes.rs:612-675
AddGuildIntro(token, hasParams, g) ==
    GuildIntroBegin("add_guild_intro", token, hasParams, g)

AddGuildIntroDone(ok) == GuildIntroDone("add_guild_intro", ok, "YtdlTerminated")

\* delete_guild_intro, routes.rs:677-724
DeleteGuildIntro(token, g, body) ==
    /\ TakesLock
    /\ LET r == Authorize(settings, token, TRUE, g, DeleteSounds) IN
       /\ settings' = IF r = "ok" THEN RemoveIntros(settings, g, body) ELSE settings
       /\ api' = Request("delete_guild_intro", token, g, r)
    /\ UNCHANGED settingsLock

\* one Ready and one voice event are still to come
InitApi ==
    /\ settings = ApiSettings
    /\ inbox = <<>>
    /\ nSent = 0
    /\ consumed = <<>>
    /\ pc = "recv"
    /\ cur = NoCur
    /\ calls = [g \in Guilds |-> NoCall]
    /\ actPending = [g \in Guilds |-> 0]
    /\ log = [g \in Guilds |-> NoCalls]
    /\ lastLog = "none"
    /\ nVoiceEvents = MaxVoiceEvents - 1
    /\ nReadyEvents = MaxReadyEvents - 1
    /\ perm = 0
    /\ asked = NoQuery
    /\ clientAlive = TRUE
    /\ botIgnored = FALSE
    /\ channelNames = CacheNames
    /\ settingsLock = "free"
    /\ lockOrder = <<>>
    /\ api = NoRequest
    /\ nApiCalls = 0

\* the dashboard alone: every request, well-formed or not
NextRoutes ==
    \/ \E token \in Tokens, g \in ApiGuilds, ch \in ApiChannels, idx \in ApiIntros :
          AddIntroToUser(token, g, ch, idx)
    \/ \E token \in Tokens, g \in ApiGuilds, ch \in ApiChannels, idx \in ApiIntros :
          RemoveIntroToUser(token, g, ch, idx)
    \/ \E token \in Tokens, hasParams \in BOOLEAN, g \in ApiGuilds :
          UploadGuildIntro(token, hasParams, g)
    \/ \E ok \in BOOLEAN : UploadGuildIntroDone(ok)
    \/ \E token \in Tokens, hasParams \in BOOLEAN, g \in ApiGuilds :
          AddGuildIntro(token, hasParams, g)
    \/ \E ok \in BOOLEAN : AddGuildIntroDone(ok)
    \/ \E token \in Tokens, g \in ApiGuilds, body \in DeleteBodies :
          DeleteGuildIntro(token, g, body)

SpecRoutes == InitApi /\ [][NextRoutes]_vars

\* the bot and the dashboard together: the requests of alice and bob for
\* guild 1 and its channel "general"
LiveTokens == {"ta", "tb"}

NextApi ==
    \/ Next
    \/ \E token \in LiveTokens, idx \in ApiIntros :
          AddIntroToUser(token, 1, "general", idx)
    \/ \E token \in LiveTokens, idx \in ApiIntros :
          RemoveIntroToUser(token, 1, "general", idx)
    \/ \E token \in LiveTokens : UploadGuildIntro(token, TRUE, 1)
    \/ \E ok \in BOOLEAN : UploadGuildIntroDone(ok)
    \/ \E token \in LiveTokens : AddGuildIntro(token, TRUE, 1)
    \/ \E ok \in BOOLEAN : AddGuildIntroDone(ok)
    \/ \E token \in LiveTokens, body \in DeleteBodies :
          DeleteGuildIntro(token, 1, body)

SpecApi == InitApi /\ [][NextApi]_vars

(***************************************************************************)
(* Permissions: can and add applied to every u8.                           *)
(***************************************************************************)
orchVars == <<settings, inbox, nSent, consumed, pc, cur, calls,
              actPending, log, lastLog, nVoiceEvents, nReadyEvents,
              clientAlive, botIgnored, channelNames, settingsLock, lockOrder,
              api, nApiCalls>>

InitPerm ==
    /\ settings = InitSettings
    /\ inbox = <<>>
    /\ nSent = 0
    /\ consumed = <<>>
    /\ pc = "recv"
    /\ cur = NoCur
    /\ calls = [g \in Guilds |-> NoCall]
    /\ actPending = [g \in Guilds |-> 0]
    /\ log = [g \in Guilds |-> NoCalls]
    /\ lastLog = "none"
    /\ nVoiceEvents = 0
    /\ nReadyEvents = 0
    /\ perm \in U8
    /\ asked = NoQuery
    /\ clientAlive = TRUE
    /\ botIgnored = FALSE
    /\ channelNames = CacheNames
    /\ settingsLock = "free"
    /\ lockOrder = <<>>
    /\ api = NoRequest
    /\ nApiCalls = 0

PermCan(x) ==
    /\ asked' = [made |-> TRUE, perm |-> perm, x |-> x, result |-> Can(perm, x)]
    /\ UNCHANGED perm
    /\ UNCHANGED orchVars

PermAdd(x) ==
    /\ perm' = Add(perm, x)
    /\ UNCHANGED asked
    /\ UNCHANGED orchVars

NextPerm ==
    \/ \E x \in Permission : PermCan(x)
    \/ \E x \in Permission : PermAdd(x)

SpecPerm == InitPerm /\ [][NextPerm]_vars

TypeOK ==
    /\ pc \in {"recv", "acquire", "join", "done"}
    /\ Len(inbox) <= InboxCapacity
    /\ \A g \in Guilds : calls[g].listeners <= MaxReadyEvents
    /\ settingsLock \in {"free", "consumer", "api"}
    /\ api.stage \in {"idle", "process"}
    /\ nApiCalls \in 0..MaxApiCalls

(***************************************************************************)
(* Properties.                                                             *)
(***************************************************************************)
CountOp(l, op) == l[1][op] + l[2][op] + l[3][op]

\* the consumer took a message out of the channel in this step
Consumes == consumed' # consumed

FailureLogs ==
    {"NoCachedChannel", "NoGuildSettings", "NoChannelSettings", "NoUserSettings",
     "NoUserIntro", "IntroNotFound", "YtdlError", "FfmpegError", "JoinFailed",
     "LeaveFailed"}

Quiescent ==
    /\ pc = "recv"
    /\ inbox = <<>>
    /\ \A g \in Guilds : actPending[g] = 0 /\ calls[g].queue = <<>>

\* the Calls that hold a session, established or being joined, on channel c
SessionsOn(c) == {g \in Guilds : calls[g].channel = c \/ calls[g].joining = c}

\* C1: in every reachable state every voice channel has at most one
\* session in the manager, whatever the interleaving of the callbacks that
\* produce PlaySound messages for it.
C1_AtMostOneSessionPerChannel ==
    \A c \in Channels : Cardinality(SessionsOn(c)) <= 1

\* two PlaySound messages for channel 11 were handled: one session, two tracks
C1_Witness ==
    /\ calls[1].channel = 11
    /\ Len(calls[1].queue) = 2
    /\ \A i \in 1..2 : calls[1].queue[i].channel = 11

\* C2: one PlaySound that is resolved, acquired, joined and enqueued,
\* followed by the end of its track and the handling of TrackEnded with an
\* empty queue, gives exactly one join call and exactly one leave call.
C2_RoundTripJoinEnqueueLeave ==
    ( /\ Quiescent
      /\ lastLog \in {"Leaving", "LeaveFailed"}
      /\ CountOp(log, "join") = 1
      /\ CountOp(log, "enqueue") = 1 )
    => CountOp(log, "leave") = 1

\* C3: the messages appended to the channel are, in append order, exactly
\* the messages already received followed by the messages still buffered:
\* none is lost, received twice or received out of order.
C3_ConsumedExactlyOnceInOrder ==
    consumed \o [i \in 1..Len(inbox) |-> inbox[i].seq] = [i \in 1..nSent |-> i]

\* several messages received while several more are buffered
C3_Witness ==
    /\ Len(consumed) >= 2
    /\ Len(inbox) >= 2
    /\ inbox[1].type # inbox[2].type

\* C4: a join, enqueue or leave call is issued only in a step of the
\* consumer task (one that receives a message or that continues the
\* handling of the received one); the callbacks issue none.
C4_OnlyConsumerActsOnSessions ==
    [][log' # log => (Consumes \/ pc # "recv")]_vars

\* the consumer has joined, enqueued and left after the callbacks ran
C4_Witness ==
    /\ CountOp(log, "join") >= 1
    /\ CountOp(log, "enqueue") >= 1
    /\ CountOp(log, "leave") >= 1
    /\ nReadyEvents >= 1

\* member m has no intro configured for channel c: unknown to the channel's
\* configuration, or known with an empty list
NoIntroConfigured(m, c) ==
    /\ ChannelGuild(c) \in DOMAIN settings.guilds
    /\ ChannelName(c) \in DOMAIN settings.guilds[ChannelGuild(c)].channels
    /\ LET users == settings.guilds[ChannelGuild(c)].channels[ChannelName(c)].users IN
       m \notin DOMAIN users \/ users[m] = <<>>

\* C5: handling a PlaySound of a member without an intro for the channel
\* issues no join, enqueue or leave call and ends the handling at once.
C5_NoIntroNoVoiceCalls ==
    [][( /\ Consumes
         /\ Head(inbox).type = "PlaySound"
         /\ NoIntroConfigured(Head(inbox).member, Head(inbox).channel) )
       => (log' = log /\ calls' = calls /\ pc' = "recv")]_vars

\* a PlaySound of a member with an empty intro list has been handled
C5_Witness ==
    /\ lastLog = "NoUserIntro"
    /\ pc = "recv"
    /\ CountOp(log, "join") = 0

\* C6: a failed acquisition issues no join and no enqueue for its message,
\* and the consumer returns to the receive with the sessions as they were
\* when the message was received.
C6_AcquireFailureNoJoin ==
    [][ /\ (pc = "recv" /\ pc' = "acquire") => (log' = log /\ calls' = calls)
        /\ (pc = "acquire" /\ lastLog' \in {"YtdlError", "FfmpegError"})
              => (log' = log /\ calls' = calls /\ pc' = "recv" /\ cur' = NoCur)
      ]_vars

\* a ytdl failure has been handled and the next message is waiting
C6_Witness ==
    /\ lastLog = "YtdlError"
    /\ pc = "recv"
    /\ inbox # <<>>

\* C7: every queued track is played on the session of the channel it was
\* resolved for; handling a join for another channel does not re-target it.
C7_NoCrossChannelCorruption ==
    \A g \in Guilds : \A i \in 1..Len(calls[g].queue) :
        calls[g].queue[i].channel = calls[g].channel

\* C8: handling a TrackEnded for a guild whose session is already torn
\* down keeps it torn down, issues no join and leaves the consumer at the
\* receive.
C8_TeardownIdempotent ==
    [][( /\ Consumes
         /\ Head(inbox).type = "TrackEnded"
         /\ calls[Head(inbox).guild].channel = NoChannel
         /\ log[Head(inbox).guild].leave >= 1 )
       => ( /\ pc' = "recv"
            /\ calls'[Head(inbox).guild].channel = NoChannel
            /\ calls'[Head(inbox).guild].queue = calls[Head(inbox).guild].queue
            /\ \A g \in Guilds : log'[g].join = log[g].join
            /\ \A g \in Guilds : log'[g].enqueue = log[g].enqueue )]_vars

\* two TrackEnded messages of one guild were handled one after the other
C8_Witness ==
    /\ pc = "recv"
    /\ \E g \in Guilds :
          /\ log[g].join = 1
          /\ log[g].leave = 2
          /\ calls[g].channel = NoChannel

\* C9: once a Ready message is handled, every configured guild has exactly
\* one track-completion listener, so a track end produces one TrackEnded.
C9_OneListenerPerGuild ==
    lastLog = "GotReady" =>
        \A g \in DOMAIN settings.guilds :
            calls[g].listeners = 1 /\ actPending[g] <= 1

\* C10: the consumer never leaves its loop, and after a message whose
\* handling failed it is back at the receive.
C10_FailuresDoNotStopConsumer ==
    /\ pc # "done"
    /\ lastLog \in FailureLogs => pc = "recv"

\* a failed join was handled after at least one other message
C10_Witness ==
    /\ lastLog = "JoinFailed"
    /\ pc = "recv"
    /\ Len(consumed) >= 2

\* C2 with a single Ready callback: the round trip is join, enqueue, leave
C2_RoundTripSingleReady ==
    nReadyEvents <= 1 => C2_RoundTripJoinEnqueueLeave

\* the consumer takes the next message out of the channel and handles it
HandleNext ==
    \/ HandleReady
    \/ \E ok \in BOOLEAN : HandleTrackEnded(ok)
    \/ \E cached \in BOOLEAN : HandlePlaySound(cached)

\* C11: while the acquisition for one guild's channel is outstanding, a
\* PlaySound or TrackEnded message of another guild waiting at the head of
\* the channel can be handled.
C11_SlowAcquisitionDoesNotBlock ==
    ( /\ pc = "acquire"
      /\ inbox # <<>>
      /\ Head(inbox).type \in {"PlaySound", "TrackEnded"}
      /\ Head(inbox).guild # cur.guild )
    => ENABLED HandleNext

\* bit i (0..7) of the u8 n
Bit(n, i) == (n \div (2 ^ i)) % 2

\* C12: whenever can(X) is asked of a permission set whose Moderator bit
\* (bit 7) is set, the answer is true, for every capability X.
C12_ModeratorCanEverything ==
    (asked.made /\ Bit(asked.perm, 7) = 1) => asked.result

\* can(UploadSounds) was asked of a set with only the Moderator bit
C12_Witness ==
    /\ asked.made
    /\ asked.perm = 128
    /\ asked.x = UploadSounds
    /\ asked.result


\* the step in which songbird.join returns an error, main.rs:292-294
JoinFails == pc = "join" /\ pc' = LoopContinue /\ lastLog' = "JoinFailed"

\* C13: when the join call fails, no stream is enqueued and no session record
\* is left dangling for the channel: the guild's Call has no connection in
\* progress after the failure, as it had none before the message was handled.
C13_FailedJoinRollsBack ==
    [][JoinFails =>
         /\ log'[cur.guild].enqueue = log[cur.guild].enqueue
         /\ calls'[cur.guild].queue = calls[cur.guild].queue
         /\ calls'[cur.guild].joining = NoChannel]_vars

\* the half of C13 the code keeps: a failed join enqueues nothing
C13_FailedJoinEnqueuesNothing ==
    [][JoinFails =>
         /\ log'[cur.guild].enqueue = log[cur.guild].enqueue
         /\ calls'[cur.guild].queue = calls[cur.guild].queue]_vars

\* the step in which the consumer takes a TrackEnded message off the inbox
HandlesTrackEnded ==
    /\ pc = "recv"
    /\ inbox # <<>>
    /\ Head(inbox).type = "TrackEnded"
    /\ Consumes

\* C14: handling TrackEnded(guild) issues a leave call if and only if the
\* guild's queue is empty when the message is handled; with a non-empty queue
\* the Call is left as it is, and no step takes a guild out of its voice
\* channel while a track is still queued.
C14_LeaveIffQueueEmpty ==
    [][ /\ HandlesTrackEnded =>
            LET g == Head(inbox).guild IN
            /\ (log'[g].leave = log[g].leave + 1) <=> (calls[g].queue = <<>>)
            /\ (log'[g].leave = log[g].leave) <=> (calls[g].queue # <<>>)
            /\ calls[g].queue # <<>> => calls'[g] = calls[g]
        /\ \A g \in Guilds :
            (calls[g].channel # NoChannel /\ calls'[g].channel = NoChannel)
                => calls[g].queue = <<>> ]_vars

\* a TrackEnded was handled while the guild's second track was still queued,
\* and the guild is still connected with no leave issued
C14_Witness ==
    /\ lastLog = "GotTrackEnded"
    /\ \E g \in Guilds :
        /\ calls[g].channel # NoChannel
        /\ calls[g].queue # <<>>
        /\ log[g].enqueue = 2
        /\ log[g].leave = 0

\* while the loop runs the channel has a Sender: the consumer's own
ConsumerHoldsSender == pc # "done" => Senders >= 1

\* C15: the consumer loop ends when, and only when, its message source is
\* closed; once the gateway client has stopped and nothing more can be sent
\* or handled, the channel is closed and the loop has ended or can end.
C15_LoopEndsOnceClientStopped ==
    (~clientAlive /\ ~ENABLED Next) => (pc = "done" \/ ENABLED RecvNone)

\* C16: a voice join of the bot's own user never produces a PlaySound: no
\* message in the inbox and no message being handled is for the bot, so it
\* can cause no join and no enqueue.
C16_OwnJoinNeverPlaysSound ==
    /\ \A i \in 1..Len(inbox) :
        inbox[i].type = "PlaySound" => inbox[i].member # BotName
    /\ cur.member # BotName
    /\ (botIgnored /\ nVoiceEvents = 1) =>
        (nSent = nReadyEvents /\ CountOp(log, "join") = 0)

\* the Handler dropped a voice join of the bot, all callbacks are spent and
\* the consumer has handled whatever was sent
C16_Witness ==
    /\ botIgnored
    /\ nVoiceEvents = MaxVoiceEvents
    /\ Quiescent

\* C17: no-intro is silent: handling the PlaySound of a member with zero
\* intros configured for the channel, found in the cache, writes no log line
\* above informational level.
C17_NoIntroIsSilent ==
    [][( /\ Consumes
         /\ Head(inbox).type = "PlaySound"
         /\ NoIntroConfigured(Head(inbox).member, Head(inbox).channel)
         /\ lastLog' \in {"NoUserSettings", "NoUserIntro"} )
       => LogLevel(lastLog') # "error"]_vars

\* C18: within the handling of one PlaySound the source is acquired before the
\* join call is issued, and enqueue is issued only when that message's join
\* call has succeeded: a join is issued only by the step that ends a successful
\* acquisition, an enqueue only by the step that ends a successful join of the
\* message's channel.
C18_AcquireThenJoinThenEnqueue ==
    [][\A g \in Guilds :
        /\ log'[g].join # log[g].join =>
            /\ pc = "acquire" /\ pc' = "join"
            /\ g = cur.guild
            /\ LogLevel(lastLog') # "error"
            /\ log'[g].enqueue = log[g].enqueue
        /\ log'[g].enqueue # log[g].enqueue =>
            /\ pc = "join" /\ pc' = "recv"
            /\ g = cur.guild
            /\ calls[g].joining = cur.channel
            /\ calls'[g].channel = cur.channel
            /\ LogLevel(lastLog') # "error"
            /\ log[g].enqueue < log[g].join ]_vars

\* one PlaySound went through acquisition, join and enqueue, and its
\* track is the only one of the guild's queue
C18_Witness ==
    /\ pc = "recv"
    /\ \E g \in Guilds :
        /\ log[g].join = 1 /\ log[g].enqueue = 1 /\ log[g].leave = 0
        /\ Len(calls[g].queue) = 1
        /\ calls[g].joining = NoChannel

\* the consumer issues a leave call for guild g in this step
LeaveIssued(g) == log'[g].leave = log[g].leave + 1

\* the half of C19 the code keeps: streams are appended to the guild's queue
\* in the order their messages are handled (the arrival order, by C3), and
\* nothing but the end of the playing track takes one out
C19_QueueKeepsArrivalOrder ==
    [][\A g \in Guilds :
        /\ log'[g].enqueue # log[g].enqueue =>
            calls'[g].queue = Append(calls[g].queue, Track(cur))
        /\ log'[g].enqueue = log[g].enqueue =>
            \/ calls'[g].queue = calls[g].queue
            \/ calls[g].queue # <<>> /\ calls'[g].queue = Tail(calls[g].queue)
      ]_vars

\* C19: when two members with intros join the same channel, their streams
\* are queued in arrival order and the leave call is issued once, after both
\* tracks have ended: with one listener on the guild and join calls for one
\* channel only, every leave call finds the queue empty and the session
\* still connected (no leave has been issued for it before).
C19_LeaveOnceAfterBothEnded ==
    [][\A g \in Guilds :
        ( /\ LeaveIssued(g)
          /\ calls[g].listeners = 1
          /\ Cardinality(log[g].joined) = 1 )
        => (calls[g].queue = <<>> /\ calls[g].channel # NoChannel)]_vars

\* C20: every session is eventually torn down: once the tracks enqueued for a
\* guild have all ended, every handler has sent its message and every message
\* has been handled, a leave call has been issued for the guild and it is
\* connected to no voice channel.
C20_SessionEventuallyTornDown ==
    Quiescent =>
        \A g \in Guilds :
            log[g].enqueue > 0 => (log[g].leave > 0 /\ calls[g].channel = NoChannel)

\* C21: a single attempt is made to leave: when leave() fails while a
\* TrackEnded is handled, the failure is logged, exactly one leave call was
\* issued for the message, the message is not put back, the consumer returns to
\* the receive, and the guild's Call is connected to no channel afterwards.
C21_SingleLeaveAttempt ==
    [][(HandlesTrackEnded /\ lastLog' = "LeaveFailed") =>
         LET g == Head(inbox).guild IN
         /\ LogLevel(lastLog') = "error"
         /\ log'[g].leave = log[g].leave + 1
         /\ inbox' = Tail(inbox)
         /\ pc' = "recv"
         /\ calls'[g].channel = NoChannel
         /\ calls'[g].joining = NoChannel]_vars

\* the leave of a connected guild failed: one leave call, and the guild is
\* connected to no channel
C21_Witness ==
    /\ lastLog = "LeaveFailed"
    /\ pc = "recv"
    /\ \E g \in Guilds :
        /\ log[g].enqueue = 1
        /\ log[g].leave = 1
        /\ calls[g].channel = NoChannel

\* the step in which the consumer takes a PlaySound message off the inbox
HandlesPlaySound ==
    /\ pc = "recv"
    /\ inbox # <<>>
    /\ Head(inbox).type = "PlaySound"
    /\ Consumes

\* the intro list stored for member m in channel c
StoredIntros(m, c) ==
    settings.guilds[ChannelGuild(c)].channels[ChannelName(c)].users[m]

\* C22: intro resolution is deterministic for a fixed configuration: every
\* PlaySound of (guild, channel, member) that resolves, resolves to the first
\* entry of the member's stored intro list for that channel, with the kind
\* the guild's intro map gives it.
C22_ResolvesFirstStoredIntro ==
    [][(HandlesPlaySound /\ pc' = "acquire") =>
         LET m == Head(inbox).member
             c == Head(inbox).channel IN
         /\ cur'.member = m /\ cur'.channel = c
         /\ StoredIntros(m, c) # <<>>
         /\ cur'.intro = Head(StoredIntros(m, c))
         /\ cur'.kind = settings.guilds[ChannelGuild(c)].intros[cur'.intro]]_vars

\* alice's join of channel 11 resolved to "f1", the first of her two intros
C22_Witness ==
    /\ pc = "acquire"
    /\ cur.member = "alice"
    /\ cur.channel = 11
    /\ Len(StoredIntros("alice", 11)) = 2
    /\ cur.intro = "f1"

\* the key of the configuration entry the consumer reads for a join of
\* channel c by member m, main.rs:233-241
ConfigKey(m, c) == <<ChannelGuild(c), ChannelName(c), m>>

\* C23: intro configuration is keyed by exact channel and member identity:
\* the entry that resolved the intro of the join being handled is the entry
\* of no other channel of the guild and of no other member, so the intro is
\* played for the channel and member it was configured for only.
C23_ConfigKeyedByChannelAndMember ==
    pc = "acquire" =>
        \A c2 \in Channels, m2 \in Members :
            <<c2, m2>> # <<cur.channel, cur.member>>
                => ConfigKey(m2, c2) # ConfigKey(cur.member, cur.channel)

\* what holds of C23 when the channel names of a guild are distinct
C23_DistinctNamesDistinctEntries ==
    (channelNames = CacheNames /\ pc = "acquire") =>
        \A c2 \in Channels, m2 \in Members :
            <<c2, m2>> # <<cur.channel, cur.member>>
                => ConfigKey(m2, c2) # ConfigKey(cur.member, cur.channel)

\* permission x has a bit that is set in the u8 p
HasBitOf(p, x) == \E i \in 0..7 : Bit(x, i) = 1 /\ Bit(p, i) = 1

C25_ListenerWhenTrackQueued ==
    \A g \in Guilds :
        (calls[g].channel # NoChannel /\ calls[g].queue # <<>>)
            => calls[g].listeners >= 1

\* the seq numbers of the messages waiting in the channel, oldest first
Waiting(q) == [i \in 1..Len(q) |-> q[i].seq]

\* C27: the inbox never holds more than 10 unconsumed messages; while it is
\* full no callback completes a send (the sender waits), and a send appends
\* its message behind those waiting, so every message sent is either consumed
\* or still in the inbox: none is dropped.
C27_FullInboxSuspendsProducers ==
    [][ /\ Len(inbox') <= InboxCapacity
        /\ Len(inbox) = InboxCapacity =>
            /\ nSent' = nSent
            /\ nReadyEvents' = nReadyEvents
            /\ \A g \in Guilds : actPending'[g] >= actPending[g]
        /\ nSent' # nSent =>
            /\ nSent' = nSent + 1
            /\ Waiting(inbox') = Append(Waiting(inbox), nSent')
        /\ consumed' \o Waiting(inbox') = [i \in 1..nSent' |-> i] ]_vars

\* the inbox is full while the Ready callback still has its message to send
C27_Witness ==
    /\ Len(inbox) = InboxCapacity
    /\ clientAlive
    /\ nReadyEvents < MaxReadyEvents
    /\ nVoiceEvents = MaxVoiceEvents

(***************************************************************************)
(* Locks: the settings mutex shared by the consumer and the dashboard, and *)
(* the mutex of each guild's Call.                                         *)
(***************************************************************************)
\* one step of the consumer loop
ConsumerStep ==
    \/ HandleReady
    \/ \E ok \in BOOLEAN : HandleTrackEnded(ok)
    \/ \E cached \in BOOLEAN : HandlePlaySound(cached)
    \/ \E ok \in BOOLEAN : AcquireDone(ok)
    \/ \E ok \in BOOLEAN : JoinDone(ok)

\* the external process of a dashboard handler ends
ProcessEnds ==
    \E ok \in BOOLEAN : UploadGuildIntroDone(ok) \/ AddGuildIntroDone(ok)

\* the consumer has a message whose arm begins with settings.lock().await
ConsumerWantsSettings ==
    /\ pc = "recv"
    /\ inbox # <<>>
    /\ Recv(inbox).type \in {"Ready", "PlaySound"}

\* in the locks an arm took, no call lock comes before the settings lock
SettingsBeforeCall(order) ==
    \A i, j \in 1..Len(order) :
        (i < j /\ order[i] = "call") => order[j] # "settings"

\* C26: the locks cannot deadlock: an arm of the consumer takes the settings
\* lock before a call lock and never after one; whoever holds the settings
\* lock is at a point from which it goes on without any other lock or a send
\* to the inbox (the consumer in its acquisition or join, a dashboard handler
\* in its external process), so the holder can always step; and a consumer
\* with work to do can step itself or waits for a holder that can.
C26_LocksNeverDeadlock ==
    /\ SettingsBeforeCall(lockOrder)
    /\ (settingsLock = "consumer") <=> (pc \in {"acquire", "join"})
    /\ (settingsLock = "api") <=> (api.stage = "process")
    /\ settingsLock = "consumer" => ENABLED ConsumerStep
    /\ settingsLock = "api" => ENABLED ProcessEnds
    /\ (pc # "recv" \/ inbox # <<>>) =>
          \/ ENABLED ConsumerStep
          \/ ConsumerWantsSettings /\ settingsLock = "api" /\ ENABLED ProcessEnds

\* the consumer waits with a PlaySound for the settings lock that a dashboard
\* handler holds while its external process runs
C26_Witness ==
    /\ ConsumerWantsSettings
    /\ Recv(inbox).type = "PlaySound"
    /\ settingsLock = "api"
    /\ api.stage = "process"
    /\ ~ENABLED ConsumerStep

\* every index in a member's intro list of a channel is an intro of the guild
Consistent(s) ==
    \A g \in DOMAIN s.guilds :
        \A ch \in DOMAIN s.guilds[g].channels :
            \A u \in DOMAIN s.guilds[g].channels[ch].users :
                \A i \in 1..Len(s.guilds[g].channels[ch].users[u]) :
                    s.guilds[g].channels[ch].users[u][i] \in DOMAIN s.guilds[g].intros

\* C29: referential integrity of the configuration: after any sequence of
\* add_intro_to_user, remove_intro_to_user, add_guild_intro, upload_guild_intro
\* and delete_guild_intro calls from a consistent configuration, every intro
\* index in a member's per-channel list refers to an intro in the guild's map.
C29_IntroListsReferToGuildIntros == Consistent(settings)

\* the deleting and the removing routes never break the integrity
C29_OnlyAddIntroToUserBreaksIntegrity ==
    [][(Consistent(settings) /\ ~Consistent(settings'))
          => api'.route = "add_intro_to_user"]_vars

(***************************************************************************)
(* The permission gate of the routes that change a guild's intros.         *)
(***************************************************************************)
\* the request carries the token of a logged-in user
KnownToken(token) == token # NoToken /\ token \in DOMAIN settings.auth_users

\* the token's user is a user of the guild and lacks the permission
Denied(token, g, needed) ==
    /\ KnownToken(token)
    /\ g \in DOMAIN settings.guilds
    /\ settings.auth_users[token] \in DOMAIN settings.guilds[g].users
    /\ ~Can(settings.guilds[g].users[settings.auth_users[token]], needed)

\* the handler returned the error and changed nothing
Refused(error) ==
    /\ api'.result = error
    /\ api'.stage = "idle"
    /\ settings' = settings
    /\ settingsLock' = "free"

\* what the claim says of one well-formed request for a permission
FailsClosed(token, g, needed) ==
    /\ Denied(token, g, needed) => Refused("InvalidPermission")
    /\ (g \in DOMAIN settings.guilds /\ ~KnownToken(token))
          => Refused("NoUserFound")
    /\ (g \notin DOMAIN settings.guilds /\ token # NoToken)
          => Refused("NoGuildFound")

\* C30: permission-gated configuration changes fail closed: a well-formed
\* add_guild_intro or upload_guild_intro by a user of the guild for whom
\* can(UploadSounds) is false, and a delete_guild_intro by one for whom
\* can(DeleteSounds) is false, returns InvalidPermission and leaves the intro
\* map and every intro list unchanged; so does a request with an unknown
\* token for a guild with settings (NoUserFound) and a request with a token
\* for a guild without settings (NoGuildFound); and whatever the request, a
\* handler that returns an error has changed nothing.
C30_PermissionGateFailsClosed ==
    [][LET token == api'.token
           g == api'.guild IN
       /\ UploadGuildIntro(token, TRUE, g) => FailsClosed(token, g, UploadSounds)
       /\ AddGuildIntro(token, TRUE, g) => FailsClosed(token, g, UploadSounds)
       /\ \A body \in DeleteBodies :
             DeleteGuildIntro(token, g, body) => FailsClosed(token, g, DeleteSounds)
       /\ \A hasParams \in BOOLEAN :
             (UploadGuildIntro(token, hasParams, g) \/ AddGuildIntro(token, hasParams, g))
                => /\ settings' = settings
                   /\ api'.stage = "process" => ~Denied(token, g, UploadSounds)
                   /\ api'.stage = "idle" =>
                         api'.result \in {"NoUserFound", "InvalidRequest",
                                          "NoGuildFound", "InvalidPermission"}
       /\ \A body \in DeleteBodies :
             (DeleteGuildIntro(token, g, body) /\ api'.result # "ok")
                => settings' = settings]_vars

\* bob, who may only use the soundboard, was refused the deletion of f1, and
\* f1 is still configured
C30_Witness ==
    /\ api.route = "delete_guild_intro"
    /\ api.token = "tb"
    /\ api.result = "InvalidPermission"
    /\ "f1" \in DOMAIN settings.guilds[1].intros
    /\ settings.guilds[1].channels["general"].users["alice"] = <<"f1">>

\* the intro is in the member's list for the channel and in the guild's map
IsConfigured(s, m, c, intro) ==
    /\ ChannelGuild(c) \in DOMAIN s.guilds
    /\ ChannelName(c) \in DOMAIN s.guilds[ChannelGuild(c)].channels
    /\ m \in DOMAIN s.guilds[ChannelGuild(c)].channels[ChannelName(c)].users
    /\ InSeq(s.guilds[ChannelGuild(c)].channels[ChannelName(c)].users[m], intro)
    /\ intro \in DOMAIN s.guilds[ChannelGuild(c)].intros

\* a dashboard write changes the configuration
DashboardWrite ==
    \/ \E token \in LiveTokens, idx \in ApiIntros :
          \/ AddIntroToUser(token, 1, "general", idx)
          \/ RemoveIntroToUser(token, 1, "general", idx)
    \/ \E token \in LiveTokens, body \in DeleteBodies :
          DeleteGuildIntro(token, 1, body)
    \/ \E token \in LiveTokens : AddGuildIntro(token, TRUE, 1)

\* C28: the consumer holds the settings lock for the whole handling of a
\* PlaySound, from the lookup through acquisition, join and enqueue: while it
\* handles one, no step changes the configuration, and the intro of the track
\* it enqueues is configured for the member and the channel of the message at
\* the moment of the enqueue.
C28_LockHeldFromLookupToEnqueue ==
    [][/\ pc \in {"acquire", "join"} =>
             /\ settingsLock = "consumer"
             /\ settings' = settings
             /\ ~DashboardWrite
       /\ pc' \in {"acquire", "join"} => settingsLock' = "consumer"
       /\ \A g \in Guilds :
             Len(calls'[g].queue) > Len(calls[g].queue) =>
                /\ pc = "join"
                /\ IsConfigured(settings', cur.member, cur.channel,
                                calls'[g].queue[Len(calls'[g].queue)].intro)]_vars

\* the consumer is waiting for its join with the lock held while alice's
\* deletion of the intro being played has not been taken up
C28_Witness ==
    /\ pc = "join"
    /\ cur.intro = "f1"
    /\ settingsLock = "consumer"
    /\ nApiCalls < MaxApiCalls
    /\ ~ENABLED DeleteGuildIntro("ta", 1, {"f1"})

====
